---------------------------- MODULE Spec2Model ----------------------------
(***************************************************************************)
(* Model of the wave-forecast pipeline of src/extract_info.py:             *)
(*   MarineWeatherExtractor.assess_wave_conditions  (the classifier)       *)
(*   MarineWeatherExtractor.process_wave_data       (grouping by day)      *)
(*   MarineWeatherExtractor.get_daily_summary       (per-day statistics)   *)
(* and of its two callers: main() of src/extract_info.py and the fetch,    *)
(* status and key-metrics steps of main() of src/dashboard.py.             *)
(*                                                                         *)
(* Measurements are Python floats or None.  A measurement is modelled as   *)
(* an optional integer: None is the empty tuple, a number v is <<n>> where *)
(* n is v in ten-thousandths of the unit (4.0 m is 40000, 7.5 s is 75000,  *)
(* 4.0001 m is 40001).  Python indexes arrays from 0, the model from 1.    *)
(***************************************************************************)
EXTENDS Integers, Sequences, FiniteSets, TLC

VARIABLES
    pc,              \* "call" before the operation under study ran, "done" after
    args,            \* the (wave_height, swell_height, swell_period) passed to the classifier
    ret,             \* what assess_wave_conditions returned (or the error it raised)
    ret_line,        \* the source line of the return statement that produced ret
    data,            \* the payload handed to process_wave_data
    processed_data,  \* the mapping process_wave_data returned
    outcome,         \* how process_wave_data ended: "returned" or "raised"
    log,             \* the records process_wave_data wrote to the logger
    daily_summary,   \* the mapping get_daily_summary returned
    summary_outcome, \* how get_daily_summary ended: "returned" or "raised"
    printed,         \* what main() of extract_info.py printed, and how it ended
    session_state,   \* st.session_state of the dashboard: a dict from key to value
    shown            \* what the latest run of the dashboard script showed

vars == <<pc, args, ret, ret_line, data, processed_data, outcome, log,
          daily_summary, summary_outcome, printed, session_state, shown>>

caller_vars == <<printed, session_state, shown>>

\* Neither caller has run.
NotPrinted == [lines |-> <<>>, exc |-> "", ran |-> FALSE]

NothingShown == [ran |-> FALSE]

CallersIdle ==
    /\ printed = NotPrinted
    /\ session_state = <<>>
    /\ shown = NothingShown

---------------------------------------------------------------------------
(* Optional numbers *)

None == <<>>

Num(n) == <<n>>

Val(x) == x[1]

---------------------------------------------------------------------------
(* assess_wave_conditions, src/extract_info.py:88-136 *)

TypeError == "TypeError"

NoReturn == "NoReturn"

\* Variant of AnyAbsent that forgets to test swell_period.
AnyAbsent_NoPeriodTest(wave_height, swell_height, swell_period) ==
    wave_height = None \/ swell_height = None

\* line 101: the guard that maps any absent input to 'Unknown'
AnyAbsent(wave_height, swell_height, swell_period) ==
    wave_height = None \/ swell_height = None \/ swell_period = None

\* Variant of TooHigh that rejects the threshold value itself.
TooHigh_Inclusive(wave_height) == Val(wave_height) >= 40000

\* line 111
TooHigh(wave_height) == Val(wave_height) > 40000

\* Variant of TooSmall that rejects every wave below the Good band (1.0 m).
TooSmall_BelowGood(wave_height) == Val(wave_height) < 10000

\* line 113
TooSmall(wave_height) == Val(wave_height) < 2000

\* line 117
PoorSwell(swell_height) == Val(swell_height) < 4000

\* Variant of PoorPeriod with the threshold the comment on line 119 names (5.5 s).
PoorPeriod_Old(swell_period) == Val(swell_period) < 55000

\* line 119
PoorPeriod(swell_period) == Val(swell_period) < 50000

\* Variant of InGoodBand whose upper wave-height edge is exclusive.
InGoodBand_StrictUpper(wave_height, swell_height, swell_period) ==
    /\ 10000 <= Val(wave_height) /\ Val(wave_height) < 32000
    /\ 8000 <= Val(swell_height) /\ Val(swell_height) <= 32000
    /\ 75000 <= Val(swell_period) /\ Val(swell_period) <= 150000

\* lines 123-125
InGoodBand(wave_height, swell_height, swell_period) ==
    /\ 10000 <= Val(wave_height) /\ Val(wave_height) <= 32000
    /\ 8000 <= Val(swell_height) /\ Val(swell_height) <= 32000
    /\ 75000 <= Val(swell_period) /\ Val(swell_period) <= 150000

\* Variant of InOKBand whose lower swell-period edge is exclusive.
InOKBand_StrictLower(wave_height, swell_height, swell_period) ==
    /\ 5000 <= Val(wave_height) /\ Val(wave_height) <= 40000
    /\ 4000 <= Val(swell_height) /\ Val(swell_height) <= 38000
    /\ 50000 < Val(swell_period) /\ Val(swell_period) <= 180000

\* lines 129-131
InOKBand(wave_height, swell_height, swell_period) ==
    /\ 5000 <= Val(wave_height) /\ Val(wave_height) <= 40000
    /\ 4000 <= Val(swell_height) /\ Val(swell_height) <= 38000
    /\ 50000 <= Val(swell_period) /\ Val(swell_period) <= 180000

\* Variant of assess_line that tests for dangerous waves before absent inputs.
assess_line_DangerFirst(wave_height, swell_height, swell_period) ==
    IF wave_height # None /\ TooHigh(wave_height) THEN 112
    ELSE IF wave_height # None /\ TooSmall(wave_height) THEN 114
    ELSE IF AnyAbsent(wave_height, swell_height, swell_period) THEN 102
    ELSE IF PoorSwell(swell_height) THEN 118
    ELSE IF PoorPeriod(swell_period) THEN 120
    ELSE IF InGoodBand(wave_height, swell_height, swell_period) THEN 126
    ELSE IF InOKBand(wave_height, swell_height, swell_period) THEN 132
    ELSE 136

\* The source line of the statement that ends the call.  A comparison of None
\* with a float raises TypeError in Python 3: line 0 stands for that exit.
assess_line(wave_height, swell_height, swell_period) ==
    IF AnyAbsent(wave_height, swell_height, swell_period) THEN 102
    ELSE IF wave_height = None THEN 0
    ELSE IF TooHigh(wave_height) THEN 112
    ELSE IF TooSmall(wave_height) THEN 114
    ELSE IF swell_height = None THEN 0
    ELSE IF PoorSwell(swell_height) THEN 118
    ELSE IF swell_period = None THEN 0
    ELSE IF PoorPeriod(swell_period) THEN 120
    ELSE IF InGoodBand(wave_height, swell_height, swell_period) THEN 126
    ELSE IF InOKBand(wave_height, swell_height, swell_period) THEN 132
    ELSE 136

\* The value each return statement returns.
ReturnAt(line) ==
    CASE line = 102 -> "Unknown"
      [] line = 112 -> "Bad"
      [] line = 114 -> "Bad"
      [] line = 118 -> "Bad"
      [] line = 120 -> "Bad"
      [] line = 126 -> "Good"
      [] line = 132 -> "OK"
      [] line = 136 -> "Bad"
      [] line = 0   -> TypeError
      [] OTHER      -> NoReturn

assess_wave_conditions(wave_height, swell_height, swell_period) ==
    ReturnAt(assess_line(wave_height, swell_height, swell_period))

---------------------------------------------------------------------------
(* Inputs of the classifier: absent, and values below, on, between and     *)
(* above every threshold of the decision procedure.                        *)

WaveHeights ==
    {None} \cup {Num(n) : n \in {0, 1900, 2000, 4000, 5000, 9900, 10000, 20000,
                                 32000, 32001, 38000, 40000, 40001, 45000}}

SwellHeights ==
    {None} \cup {Num(n) : n \in {0, 3000, 3999, 4000, 5000, 7999, 8000, 30000,
                                 32000, 32001, 38000, 38001}}

SwellPeriods ==
    {None} \cup {Num(n) : n \in {0, 45000, 49999, 50000, 60000, 70000, 74999,
                                 75000, 140000, 150000, 150001, 180000, 180001}}

NoArgs == [wave_height |-> None, swell_height |-> None, swell_period |-> None]

NoPayload == [kind |-> "None"]

\* The classifier on its own: any triple of inputs, then one call.
InitClassify ==
    /\ pc = "call"
    /\ args \in [wave_height : WaveHeights, swell_height : SwellHeights,
                 swell_period : SwellPeriods]
    /\ ret = "pending"
    /\ ret_line = -1
    /\ data = NoPayload
    /\ processed_data = <<>>
    /\ outcome = "pending"
    /\ log = <<>>
    /\ daily_summary = <<>>
    /\ summary_outcome = "pending"
    /\ CallersIdle

Assess ==
    /\ pc = "call"
    /\ ret = "pending"
    /\ ret_line' = assess_line(args.wave_height, args.swell_height, args.swell_period)
    /\ ret' = assess_wave_conditions(args.wave_height, args.swell_height, args.swell_period)
    /\ pc' = "done"
    /\ UNCHANGED <<args, data, processed_data, outcome, log, daily_summary,
                   summary_outcome, caller_vars>>

NextClassify == Assess

SpecClassify == InitClassify /\ [][NextClassify]_vars

---------------------------------------------------------------------------
(* The classifier's claims, checked under SpecClassify *)

Labels == {"Good", "OK", "Bad", "Unknown"}

Called == pc = "done" /\ ret # "pending"

Triple(w, s, p) ==
    [wave_height |-> Num(w), swell_height |-> Num(s), swell_period |-> Num(p)]

Present(x) == x # None

Below(x, t) == Present(x) /\ Val(x) < t

Above(x, t) == Present(x) /\ Val(x) > t

Within(x, lo, hi) == Present(x) /\ lo <= Val(x) /\ Val(x) <= hi

SomeAbsent(a) ==
    ~Present(a.wave_height) \/ ~Present(a.swell_height) \/ ~Present(a.swell_period)

\* The decision procedure of the specification as an ordered list of
\* (predicate, label) pairs.
ProcedureRules(a) ==
    << [when |-> ~Present(a.wave_height) \/ ~Present(a.swell_height)
                    \/ ~Present(a.swell_period),           label |-> "Unknown"],
       [when |-> Above(a.wave_height, 40000),               label |-> "Bad"],
       [when |-> Below(a.wave_height, 2000),                label |-> "Bad"],
       [when |-> Below(a.swell_height, 4000),               label |-> "Bad"],
       [when |-> Below(a.swell_period, 50000),              label |-> "Bad"],
       [when |-> /\ Within(a.wave_height, 10000, 32000)
                 /\ Within(a.swell_height, 8000, 32000)
                 /\ Within(a.swell_period, 75000, 150000),  label |-> "Good"],
       [when |-> /\ Within(a.wave_height, 5000, 40000)
                 /\ Within(a.swell_height, 4000, 38000)
                 /\ Within(a.swell_period, 50000, 180000),  label |-> "OK"],
       [when |-> TRUE,                                      label |-> "Bad"] >>

FirstMatch(rules) ==
    LET first == CHOOSE i \in 1..Len(rules) :
                     rules[i].when /\ \A j \in 1..(i - 1) : ~rules[j].when
    IN  rules[first].label

\* C1: for every triple of numbers or absent values, assess_wave_conditions
\* returns the label of the ordered first-match-wins procedure (absent ->
\* Unknown, the four rejections -> Bad, Good band, OK band, otherwise Bad).
C1_MatchesProcedure == Called => ret = FirstMatch(ProcedureRules(args))

C1_Witness ==
    /\ Called
    /\ args = Triple(5000, 4000, 50000)
    /\ ret = "OK"

\* C2: assess_wave_conditions is total: whatever mix of absent, below-range,
\* in-range and above-range inputs it gets, it returns one of the four labels
\* Good, OK, Bad, Unknown; it never raises and never ends without a label.
C2_Total == Called => ret \in Labels /\ ret_line # 0

C2_Witness ==
    /\ Called
    /\ args = [wave_height |-> Num(20000), swell_height |-> Num(38001),
               swell_period |-> None]
    /\ ret \in Labels

\* C3: when at least one input is absent the result is Unknown whatever the
\* other inputs are, also when a present input alone would be rejected as Bad.
C3_AbsentFirst ==
    Called /\ SomeAbsent(args) => ret = "Unknown"

C3_Witness ==
    /\ Called
    /\ Above(args.wave_height, 40000)
    /\ args.swell_period = None
    /\ ret = "Unknown"

\* C4: every triple of present values inside the Good band, its six edges
\* included, is classified Good; (1.0, 0.8, 7.5) and (3.2, 3.2, 15.0) are Good.
C4_GoodBandInclusive ==
    /\ Called /\ Within(args.wave_height, 10000, 32000)
              /\ Within(args.swell_height, 8000, 32000)
              /\ Within(args.swell_period, 75000, 150000)
         => ret = "Good" /\ ret_line = 126
    /\ Called /\ args \in {Triple(10000, 8000, 75000), Triple(32000, 32000, 150000)}
         => ret = "Good"

C4_Witness ==
    /\ Called
    /\ args = Triple(32000, 32000, 150000)
    /\ ret = "Good"

InGoodBox(a) ==
    /\ Within(a.wave_height, 10000, 32000)
    /\ Within(a.swell_height, 8000, 32000)
    /\ Within(a.swell_period, 75000, 150000)

InOKBox(a) ==
    /\ Within(a.wave_height, 5000, 40000)
    /\ Within(a.swell_height, 4000, 38000)
    /\ Within(a.swell_period, 50000, 180000)

\* C5: every triple of present values inside the OK band (edges included) and
\* outside the Good band in at least one dimension is classified OK, never Bad.
C5_OKBand ==
    /\ Called /\ InOKBox(args) /\ ~InGoodBox(args) => ret = "OK"
    /\ Called /\ args \in {Triple(9900, 8000, 75000), Triple(10000, 8000, 70000),
                           Triple(38000, 32000, 140000), Triple(5000, 4000, 50000)}
         => ret = "OK"

C5_Witness ==
    /\ Called
    /\ args = Triple(9900, 8000, 75000)
    /\ ret = "OK"

\* C6: with all inputs present, wave_height > 4.0, wave_height < 0.2,
\* swell_height < 0.4 and swell_period < 5.0 each give Bad whatever the other
\* inputs are; the comparisons are strict, so a value exactly on a threshold is
\* not rejected by that threshold's rule, and (4.0, 3.0, 18.0) is OK.
C6_StrictRejections ==
    Called /\ ~SomeAbsent(args) =>
        /\ ( \/ Above(args.wave_height, 40000) \/ Below(args.wave_height, 2000)
             \/ Below(args.swell_height, 4000) \/ Below(args.swell_period, 50000) )
              => ret = "Bad" /\ ret_line \in {112, 114, 118, 120}
        /\ Val(args.wave_height) = 40000 => ret_line # 112
        /\ Val(args.wave_height) = 2000 => ret_line # 114
        /\ Val(args.swell_height) = 4000 => ret_line # 118
        /\ Val(args.swell_period) = 50000 => ret_line # 120
        /\ args = Triple(40000, 30000, 180000) => ret = "OK"
        /\ args = Triple(40001, 30000, 180000) => ret = "Bad"
        /\ args = Triple(1900, 5000, 60000) => ret = "Bad"
        /\ args = Triple(5000, 3000, 60000) => ret = "Bad"
        /\ args = Triple(5000, 4000, 45000) => ret = "Bad"

C6_Witness ==
    /\ Called
    /\ args = Triple(40001, 30000, 180000)
    /\ ret = "Bad"
    /\ ret_line = 112

---------------------------------------------------------------------------
(* Timestamps, src/extract_info.py:161-162 and 177.                        *)
(* A timestamp string such as "2024-06-02T01:00+03:00" is modelled by its  *)
(* parts: the calendar date written in it (as a day number), the hour      *)
(* written in it, and the text after the time: "" (none), "Z", an offset   *)
(* "+03:00" / "-05:00", or text that is no ISO-8601 suffix.                *)

\* timestamp.replace('Z', '+00:00'), line 161
ReplaceZ(timestamp) ==
    IF timestamp.suffix = "Z" THEN [timestamp EXCEPT !.suffix = "+00:00"] ELSE timestamp

\* The suffixes datetime.fromisoformat accepts, and the UTC offset (in hours)
\* of the datetime it builds; a string without offset gives a naive datetime.
IsoSuffixes == {"", "+00:00", "+03:00", "-05:00"}

UtcOffset(suffix) ==
    CASE suffix = "+00:00" -> Num(0)
      [] suffix = "+03:00" -> Num(3)
      [] suffix = "-05:00" -> Num(0 - 5)
      [] OTHER             -> None

\* datetime.fromisoformat raises ValueError on any other string, line 161
CanParse(text) == text.suffix \in IsoSuffixes

\* datetime.fromisoformat(text): the fields are those written in the string
fromisoformat(text) ==
    [date |-> text.date, hour |-> text.hour, utcoffset |-> UtcOffset(text.suffix)]

\* date.strftime('%Y-%m-%d'), line 162: the calendar date of the datetime's own fields
strftime(date) == date.date

---------------------------------------------------------------------------
(* Python dicts and lists, as process_wave_data uses them *)

\* dict.get(key, default)
Get(d, key, default) == IF key \in DOMAIN d THEN d[key] ELSE default

\* An insertion-ordered dict from date key to list of samples is a sequence of
\* entries [date, samples]; a new key is appended at the end.
HasKey(mapping, key) == \E k \in 1..Len(mapping) : mapping[k].date = key

\* Variant of EnsureKey that keeps the keys in ascending order of date.
EnsureKey_SortedKeys(mapping, key) ==
    IF HasKey(mapping, key) THEN mapping
    ELSE LET before == SelectSeq(mapping, LAMBDA e : e.date < key)
             after  == SelectSeq(mapping, LAMBDA e : e.date > key)
         IN  before \o <<[date |-> key, samples |-> <<>>]>> \o after

\* lines 164-165
EnsureKey(mapping, key) ==
    IF HasKey(mapping, key) THEN mapping
    ELSE Append(mapping, [date |-> key, samples |-> <<>>])

\* processed_data[date_key].append(wave_data), line 188
AppendTo(mapping, key, sample) ==
    [k \in 1..Len(mapping) |->
        IF mapping[k].date = key
        THEN [mapping[k] EXCEPT !.samples = Append(@, sample)]
        ELSE mapping[k]]

Fields ==
    {"wave_height", "wave_direction", "wind_wave_height", "wind_wave_direction",
     "swell_wave_height", "swell_wave_direction", "swell_wave_period"}

\* hourly_data.get(name, [None]), lines 168-170 and 179-183
FieldArray(hourly_data, name) == Get(hourly_data, name, <<None>>)

\* Whether hourly_data.get(name, [None])[i] raises IndexError for some field
\* (i counts from 1 here, so position i exists iff i <= Len).
IndexErrorAt(hourly_data, i) ==
    \E name \in Fields : i > Len(FieldArray(hourly_data, name))

\* Variant of WaveData that rates the wind wave height in place of the wave height.
WaveData_RatesWindWave(hourly_data, timestamp, date, i) ==
    LET wave_height  == FieldArray(hourly_data, "wave_height")[i]
        swell_height == FieldArray(hourly_data, "swell_wave_height")[i]
        swell_period == FieldArray(hourly_data, "swell_wave_period")[i]
    IN  [timestamp            |-> timestamp,
         hour                 |-> date.hour,
         wave_height          |-> wave_height,
         wave_direction       |-> FieldArray(hourly_data, "wave_direction")[i],
         wind_wave_height     |-> FieldArray(hourly_data, "wind_wave_height")[i],
         wind_wave_direction  |-> FieldArray(hourly_data, "wind_wave_direction")[i],
         swell_wave_height    |-> swell_height,
         swell_wave_direction |-> FieldArray(hourly_data, "swell_wave_direction")[i],
         swell_wave_period    |-> swell_period,
         wave_condition       |-> assess_wave_conditions(
                                      FieldArray(hourly_data, "wind_wave_height")[i],
                                      swell_height, swell_period)]

\* Variant of WaveData that rates sample i by the values of the index before it.
WaveData_NeighbourIndex(hourly_data, timestamp, date, i) ==
    LET h == IF i > 1 THEN i - 1 ELSE i
        wave_height  == FieldArray(hourly_data, "wave_height")[i]
        swell_height == FieldArray(hourly_data, "swell_wave_height")[i]
        swell_period == FieldArray(hourly_data, "swell_wave_period")[i]
    IN  [timestamp            |-> timestamp,
         hour                 |-> date.hour,
         wave_height          |-> wave_height,
         wave_direction       |-> FieldArray(hourly_data, "wave_direction")[i],
         wind_wave_height     |-> FieldArray(hourly_data, "wind_wave_height")[i],
         wind_wave_direction  |-> FieldArray(hourly_data, "wind_wave_direction")[i],
         swell_wave_height    |-> swell_height,
         swell_wave_direction |-> FieldArray(hourly_data, "swell_wave_direction")[i],
         swell_wave_period    |-> swell_period,
         wave_condition       |-> assess_wave_conditions(
                                      FieldArray(hourly_data, "wave_height")[h],
                                      FieldArray(hourly_data, "swell_wave_height")[h],
                                      FieldArray(hourly_data, "swell_wave_period")[h])]

\* The dict built on lines 175-186
WaveData(hourly_data, timestamp, date, i) ==
    LET wave_height  == FieldArray(hourly_data, "wave_height")[i]
        swell_height == FieldArray(hourly_data, "swell_wave_height")[i]
        swell_period == FieldArray(hourly_data, "swell_wave_period")[i]
    IN  [timestamp            |-> timestamp,
         hour                 |-> date.hour,
         wave_height          |-> wave_height,
         wave_direction       |-> FieldArray(hourly_data, "wave_direction")[i],
         wind_wave_height     |-> FieldArray(hourly_data, "wind_wave_height")[i],
         wind_wave_direction  |-> FieldArray(hourly_data, "wind_wave_direction")[i],
         swell_wave_height    |-> swell_height,
         swell_wave_direction |-> FieldArray(hourly_data, "swell_wave_direction")[i],
         swell_wave_period    |-> swell_period,
         wave_condition       |-> assess_wave_conditions(wave_height, swell_height,
                                                         swell_period)]

\* Variant of LoopFrom that skips a timestamp it cannot parse and keeps the rest.
RECURSIVE LoopFrom_SkipMalformed(_, _, _, _)
LoopFrom_SkipMalformed(hourly_data, times, i, acc) ==
    IF i > Len(times) THEN [exc |-> "", value |-> acc]
    ELSE IF ~CanParse(ReplaceZ(times[i]))
         THEN LoopFrom_SkipMalformed(hourly_data, times, i + 1, acc)
    ELSE LET date     == fromisoformat(ReplaceZ(times[i]))
             date_key == strftime(date)
             created  == EnsureKey(acc, date_key)
         IN  IF IndexErrorAt(hourly_data, i)
             THEN [exc |-> "IndexError", value |-> created]
             ELSE LoopFrom_SkipMalformed(hourly_data, times, i + 1,
                      AppendTo(created, date_key,
                               WaveData(hourly_data, times[i], date, i)))

\* The for loop of lines 160-188 from position i on, with processed_data = acc:
\* it ends normally (exc = "") or with the exception that left the loop.
RECURSIVE LoopFrom(_, _, _, _)
LoopFrom(hourly_data, times, i, acc) ==
    IF i > Len(times) THEN [exc |-> "", value |-> acc]
    ELSE IF ~CanParse(ReplaceZ(times[i]))
         THEN [exc |-> "ValueError", value |-> acc]
    ELSE LET date     == fromisoformat(ReplaceZ(times[i]))
             date_key == strftime(date)
             created  == EnsureKey(acc, date_key)
         IN  IF IndexErrorAt(hourly_data, i)
             THEN [exc |-> "IndexError", value |-> created]
             ELSE LoopFrom(hourly_data, times, i + 1,
                      AppendTo(created, date_key,
                               WaveData(hourly_data, times[i], date, i)))

\* `not data`, line 148: None and the empty dict are falsy
Falsy(payload) == payload.kind = "None" \/ DOMAIN payload.items = {}

\* Variant of TryExcept whose except clause returns what was grouped so far.
TryExcept_KeepsPartial(run) ==
    IF run.exc = ""
    THEN [value |-> run.value, outcome |-> "returned",
          log |-> <<[level |-> "INFO", msg |-> "Processed data for", days |-> Len(run.value)]>>]
    ELSE [value |-> run.value, outcome |-> "returned",
          log |-> <<[level |-> "ERROR", msg |-> "Error processing wave data", exc |-> run.exc]>>]

\* The try/except of lines 155-195: any exception is logged and {} returned.
TryExcept(run) ==
    IF run.exc = ""
    THEN [value |-> run.value, outcome |-> "returned",
          log |-> <<[level |-> "INFO", msg |-> "Processed data for", days |-> Len(run.value)]>>]
    ELSE [value |-> <<>>, outcome |-> "returned",
          log |-> <<[level |-> "ERROR", msg |-> "Error processing wave data", exc |-> run.exc]>>]

\* Variant of process_wave_data without the `not data` test of line 148:
\* 'hourly' not in None raises TypeError outside the try block.
process_wave_data_NoFalsyTest(payload) ==
    IF payload.kind = "None"
    THEN [value |-> <<>>, outcome |-> "raised", log |-> <<>>]
    ELSE IF "hourly" \notin DOMAIN payload.items
    THEN [value |-> <<>>, outcome |-> "returned",
          log |-> <<[level |-> "ERROR", msg |-> "Invalid data structure received"]>>]
    ELSE LET hourly_data == payload.items["hourly"]
             times       == Get(hourly_data, "time", <<>>)
         IN  TryExcept(LoopFrom(hourly_data, times, 1, <<>>))

\* process_wave_data, lines 138-195
process_wave_data(payload) ==
    IF Falsy(payload) \/ "hourly" \notin DOMAIN payload.items
    THEN [value |-> <<>>, outcome |-> "returned",
          log |-> <<[level |-> "ERROR", msg |-> "Invalid data structure received"]>>]
    ELSE LET hourly_data == payload.items["hourly"]
             times       == Get(hourly_data, "time", <<>>)
         IN  TryExcept(LoopFrom(hourly_data, times, 1, <<>>))

---------------------------------------------------------------------------
(* Payloads *)

MaxLen == 2

\* 2024-06-01T22:00, 2024-06-01T22:00Z, 2024-06-02T01:00+03:00 (the same
\* instant as the one before) and a string that is no timestamp.
Timestamps ==
    { [date |-> 1, hour |-> 22, suffix |-> ""],
      [date |-> 1, hour |-> 22, suffix |-> "Z"],
      [date |-> 2, hour |-> 1,  suffix |-> "+03:00"],
      [date |-> 1, hour |-> 22, suffix |-> "?"] }

TimeArrays == UNION {[1..n -> Timestamps] : n \in 0..MaxLen}

\* A value of each classified field that, with the other two, rates Good.
SampleValue(name) ==
    CASE name = "wave_height"       -> Num(15000)
      [] name = "swell_wave_height" -> Num(12000)
      [] name = "swell_wave_period" -> Num(80000)
      [] name = "wave_direction"       -> Num(2700000)
      [] name = "wind_wave_height"     -> Num(3000)
      [] name = "wind_wave_direction"  -> Num(1800000)
      [] name = "swell_wave_direction" -> Num(2250000)

ClassifiedFields == {"wave_height", "swell_wave_height", "swell_wave_period"}

\* The arrays a field may come with, for a time array of length n: one entry
\* per timestamp, each a number or null, or the same array one entry short.
\* An auxiliary field comes without nulls.
FieldArrays(name, n) ==
    LET values == IF name \in ClassifiedFields THEN {None, SampleValue(name)}
                  ELSE {SampleValue(name)}
        full   == [1..n -> values]
        short  == IF n = 0 \/ name \notin ClassifiedFields THEN {}
                  ELSE {[i \in 1..(n - 1) |-> SampleValue(name)]}
    IN  full \cup short

\* An optional key of the "hourly" object: <<FALSE, <<>>>> when the key is
\* missing, <<TRUE, array>> when it is there.
NoKey == <<FALSE, <<>>>>

FieldOptions(name, n) == {NoKey} \cup {<<TRUE, a>> : a \in FieldArrays(name, n)}

TimeOptions == {NoKey} \cup {<<TRUE, times>> : times \in TimeArrays}

\* The dict that holds exactly the keys that are there.
MkHourly(options) ==
    [key \in {k \in DOMAIN options : options[k][1]} |-> options[key][2]]

\* The length the field arrays are measured against.
Expected(time) == IF time[1] THEN Len(time[2]) ELSE 1

\* A payload with an "hourly" object: a time array (or none) and, for each of
\* the seven fields independently, an array or no such key.
HourlyPayload(time, wh, wd, wwh, wwd, swh, swd, swp) ==
    [kind  |-> "dict",
     items |-> [hourly |-> MkHourly([time                 |-> time,
                                     wave_height          |-> wh,
                                     wave_direction       |-> wd,
                                     wind_wave_height     |-> wwh,
                                     wind_wave_direction  |-> wwd,
                                     swell_wave_height    |-> swh,
                                     swell_wave_direction |-> swd,
                                     swell_wave_period    |-> swp])]]

\* The payloads without "hourly": None, an empty object, an object with
\* other keys only.
NoHourlyPayloads ==
    {NoPayload, [kind |-> "dict", items |-> <<>>],
     [kind |-> "dict", items |-> [latitude |-> 320800]]}

\* What fetch_marine_data may hand over.
InitData ==
    \/ data \in NoHourlyPayloads
    \/ \E time \in TimeOptions :
         \E wh  \in FieldOptions("wave_height", Expected(time)),
            wd  \in FieldOptions("wave_direction", Expected(time)),
            wwh \in FieldOptions("wind_wave_height", Expected(time)),
            wwd \in FieldOptions("wind_wave_direction", Expected(time)),
            swh \in FieldOptions("swell_wave_height", Expected(time)),
            swd \in FieldOptions("swell_wave_direction", Expected(time)),
            swp \in FieldOptions("swell_wave_period", Expected(time)) :
              data = HourlyPayload(time, wh, wd, wwh, wwd, swh, swd, swp)

Init ==
    /\ pc = "call"
    /\ InitData
    /\ processed_data = <<>>
    /\ outcome = "pending"
    /\ log = <<>>
    /\ args = NoArgs
    /\ ret = "pending"
    /\ ret_line = -1
    /\ daily_summary = <<>>
    /\ summary_outcome = "pending"
    /\ CallersIdle

\* One call processed_data = extractor.process_wave_data(raw_data)
ProcessWaveData ==
    /\ pc = "call"
    /\ outcome = "pending"
    /\ LET r == process_wave_data(data)
       IN  /\ processed_data' = r.value
           /\ outcome' = r.outcome
           /\ log' = r.log
    /\ pc' = "done"
    /\ UNCHANGED <<data, args, ret, ret_line, daily_summary, summary_outcome, caller_vars>>

Next == ProcessWaveData

Spec == Init /\ [][Next]_vars

---------------------------------------------------------------------------
(* Python float arithmetic, as get_daily_summary uses it (lines 228, 230). *)
(* A Python float is an IEEE-754 binary number: a significand of a fixed   *)
(* number of bits times a power of two, and every sum and quotient is      *)
(* rounded to the nearest such number, ties to the even significand.  The  *)
(* model keeps the rounding rule and cuts the significand from 53 bits to  *)
(* FloatBits bits.  The measurements it draws are floats of that format.   *)
(* A quotient is kept as the exact fraction <<numerator, denominator>> of  *)
(* the float it rounds to (the denominator a power of two).                *)

FloatBits == 4

RECURSIVE Pow2(_)
Pow2(k) == IF k <= 0 THEN 1 ELSE 2 * Pow2(k - 1)

\* The integer nearest to n / d, ties to the even one.
RoundHalfEven(n, d) ==
    LET q == n \div d
        r == n % d
    IN  IF 2 * r < d THEN q
        ELSE IF 2 * r > d THEN q + 1
        ELSE IF q % 2 = 0 THEN q ELSE q + 1

\* n / d > 0 scaled by a power of two into the float format's binade:
\* <<n1, d1, e>> with n / d = (n1 / d1) * 2^e and
\* 2^(FloatBits-1) <= n1 / d1 < 2^FloatBits.
RECURSIVE Normalized(_, _, _)
Normalized(n, d, e) ==
    IF n >= Pow2(FloatBits) * d THEN Normalized(n, 2 * d, e + 1)
    ELSE IF n < Pow2(FloatBits - 1) * d THEN Normalized(2 * n, d, e - 1)
    ELSE <<n, d, e>>

RECURSIVE Reduced(_, _)
Reduced(num, den) ==
    IF den > 1 /\ num % 2 = 0 THEN Reduced(num \div 2, den \div 2) ELSE <<num, den>>

\* The float nearest to a / b (a >= 0, b > 0), as a fraction.
FloatRound(a, b) ==
    IF a = 0 THEN <<0, 1>>
    ELSE LET scaled == Normalized(a, b, 0)
             m      == RoundHalfEven(scaled[1], scaled[2])
             e      == scaled[3]
         IN  Reduced(m * Pow2(e), Pow2(0 - e))

\* x + y of two floats that hold whole numbers of units: again a whole number.
FloatAdd(x, y) == FloatRound(x + y, 1)[1]

\* sum(list): 0 + list[0] + list[1] + ..., rounded after every addition
RECURSIVE FloatSum(_, _)
FloatSum(list, k) ==
    IF k = 0 THEN 0 ELSE FloatAdd(FloatSum(list, k - 1), list[k])

\* total / count
FloatDiv(total, count) == FloatRound(total, count)

---------------------------------------------------------------------------
(* get_daily_summary, src/extract_info.py:197-238.                         *)
(* A built-in that raises is modelled by a result [exc, val] whose exc     *)
(* names the exception; exc = "" is a normal result.                       *)

\* Variant of PresentValues that tests truthiness (`if d[name]`).
PresentValues_Truthy(hourly_data, name) ==
    LET kept == SelectSeq(hourly_data, LAMBDA d : d[name] # None /\ d[name] # Num(0))
    IN  [k \in 1..Len(kept) |-> Val(kept[k][name])]

\* [d[name] for d in hourly_data if d[name] is not None], lines 214-216
PresentValues(hourly_data, name) ==
    LET kept == SelectSeq(hourly_data, LAMBDA d : d[name] # None)
    IN  [k \in 1..Len(kept) |-> Val(kept[k][name])]

\* Variant of KnownConditions that takes an Unknown rating for a Bad one.
KnownConditions_UnknownAsBad(hourly_data) ==
    [k \in 1..Len(hourly_data) |->
        IF hourly_data[k].wave_condition = "Unknown" THEN "Bad"
        ELSE hourly_data[k].wave_condition]

\* [d['wave_condition'] for d in hourly_data if d['wave_condition'] != 'Unknown'], line 219
KnownConditions(hourly_data) ==
    LET kept == SelectSeq(hourly_data, LAMBDA d : d.wave_condition # "Unknown")
    IN  [k \in 1..Len(kept) |-> kept[k].wave_condition]

\* Variant of CountOf that counts every entry of the list.
CountOf_AnyLabel(list, label) == Len(list)

\* list.count(label), lines 220-222
CountOf(list, label) == Cardinality({k \in 1..Len(list) : list[k] = label})

\* max(list): ValueError on an empty list
PyMax(list) ==
    IF Len(list) = 0 THEN [exc |-> "ValueError", val |-> None]
    ELSE [exc |-> "",
          val |-> Num(CHOOSE v \in {list[k] : k \in 1..Len(list)} :
                          \A k \in 1..Len(list) : list[k] <= v)]

\* min(list): ValueError on an empty list
PyMin(list) ==
    IF Len(list) = 0 THEN [exc |-> "ValueError", val |-> None]
    ELSE [exc |-> "",
          val |-> Num(CHOOSE v \in {list[k] : k \in 1..Len(list)} :
                          \A k \in 1..Len(list) : v <= list[k])]

\* sum(list) / len(list): ZeroDivisionError on an empty list
PyMean(list) ==
    IF Len(list) = 0 THEN [exc |-> "ZeroDivisionError", val |-> None]
    ELSE [exc |-> "", val |-> FloatDiv(FloatSum(list, Len(list)), Len(list))]

\* Variant of IfAny without the test: the reduction runs on an empty list too.
IfAny_Unguarded(list, reduction) == reduction

\* `reduction if list else None`, lines 229-230
IfAny(list, reduction) == IF Len(list) > 0 THEN reduction ELSE [exc |-> "", val |-> None]

\* Variant of BestCondition that lets the Bad hours decide first.
BestCondition_WorstFirst(good_hours, ok_hours, bad_hours) ==
    IF bad_hours > 0 THEN "Bad" ELSE IF ok_hours > 0 THEN "OK" ELSE "Good"

\* line 235
BestCondition(good_hours, ok_hours, bad_hours) ==
    IF good_hours > 0 THEN "Good" ELSE IF ok_hours > 0 THEN "OK" ELSE "Bad"

\* The first exception among the results, in evaluation order ("" if none).
FirstExc(results) ==
    IF \A k \in 1..Len(results) : results[k].exc = "" THEN ""
    ELSE results[CHOOSE k \in 1..Len(results) :
                     results[k].exc # "" /\ \A h \in 1..(k - 1) : results[h].exc = ""].exc

\* Variant of DayEntry that counts the present wave heights as data_points.
DayEntry_CountsPresent(hourly_data) ==
    LET wave_heights    == PresentValues(hourly_data, "wave_height")
        swell_heights   == PresentValues(hourly_data, "swell_wave_height")
        swell_periods   == PresentValues(hourly_data, "swell_wave_period")
        wave_conditions == KnownConditions(hourly_data)
        good_hours      == CountOf(wave_conditions, "Good")
        ok_hours        == CountOf(wave_conditions, "OK")
        bad_hours       == CountOf(wave_conditions, "Bad")
    IN  [exc |-> "",
         val |-> [max_wave_height       |-> PyMax(wave_heights).val,
                  min_wave_height       |-> PyMin(wave_heights).val,
                  avg_wave_height       |-> PyMean(wave_heights).val,
                  max_swell_height      |-> IfAny(swell_heights, PyMax(swell_heights)).val,
                  avg_swell_period      |-> IfAny(swell_periods, PyMean(swell_periods)).val,
                  data_points           |-> Len(wave_heights),
                  good_conditions_hours |-> good_hours,
                  ok_conditions_hours   |-> ok_hours,
                  bad_conditions_hours  |-> bad_hours,
                  best_condition        |-> BestCondition(good_hours, ok_hours, bad_hours)]]

\* The dict built on lines 225-236 for one day's samples
DayEntry(hourly_data) ==
    LET wave_heights    == PresentValues(hourly_data, "wave_height")
        swell_heights   == PresentValues(hourly_data, "swell_wave_height")
        swell_periods   == PresentValues(hourly_data, "swell_wave_period")
        wave_conditions == KnownConditions(hourly_data)
        good_hours      == CountOf(wave_conditions, "Good")
        ok_hours        == CountOf(wave_conditions, "OK")
        bad_hours       == CountOf(wave_conditions, "Bad")
        max_wave        == PyMax(wave_heights)
        min_wave        == PyMin(wave_heights)
        avg_wave        == PyMean(wave_heights)
        max_swell       == IfAny(swell_heights, PyMax(swell_heights))
        avg_period      == IfAny(swell_periods, PyMean(swell_periods))
    IN  [exc |-> FirstExc(<<max_wave, min_wave, avg_wave, max_swell, avg_period>>),
         val |-> [max_wave_height       |-> max_wave.val,
                  min_wave_height       |-> min_wave.val,
                  avg_wave_height       |-> avg_wave.val,
                  max_swell_height      |-> max_swell.val,
                  avg_swell_period      |-> avg_period.val,
                  data_points           |-> Len(hourly_data),
                  good_conditions_hours |-> good_hours,
                  ok_conditions_hours   |-> ok_hours,
                  bad_conditions_hours  |-> bad_hours,
                  best_condition        |-> BestCondition(good_hours, ok_hours, bad_hours)]]

\* Variant of HasWaveHeights that keeps a day with any present measurement.
HasWaveHeights_AnyMeasurement(hourly_data) ==
    \/ Len(PresentValues(hourly_data, "wave_height")) > 0
    \/ Len(PresentValues(hourly_data, "swell_wave_height")) > 0
    \/ Len(PresentValues(hourly_data, "swell_wave_period")) > 0

\* `if wave_heights:`, line 224
HasWaveHeights(hourly_data) == Len(PresentValues(hourly_data, "wave_height")) > 0

\* Variant of SummaryFrom without the `if wave_heights:` test of line 224.
RECURSIVE SummaryFrom_NoWaveTest(_, _, _)
SummaryFrom_NoWaveTest(mapping, k, acc) ==
    IF k > Len(mapping) THEN [exc |-> "", value |-> acc]
    ELSE IF Len(mapping[k].samples) = 0 THEN SummaryFrom_NoWaveTest(mapping, k + 1, acc)
    ELSE LET entry == DayEntry(mapping[k].samples)
         IN  IF entry.exc # "" THEN [exc |-> entry.exc, value |-> acc]
             ELSE SummaryFrom_NoWaveTest(mapping, k + 1,
                      Append(acc, [date |-> mapping[k].date, summary |-> entry.val]))

\* The for loop of lines 209-236 from entry k of processed_data on, with
\* daily_summary = acc: the summary, or the exception that left the loop.
RECURSIVE SummaryFrom(_, _, _)
SummaryFrom(mapping, k, acc) ==
    IF k > Len(mapping) THEN [exc |-> "", value |-> acc]
    ELSE IF Len(mapping[k].samples) = 0 THEN SummaryFrom(mapping, k + 1, acc)
    ELSE IF ~HasWaveHeights(mapping[k].samples) THEN SummaryFrom(mapping, k + 1, acc)
    ELSE LET entry == DayEntry(mapping[k].samples)
         IN  IF entry.exc # "" THEN [exc |-> entry.exc, value |-> acc]
             ELSE SummaryFrom(mapping, k + 1,
                      Append(acc, [date |-> mapping[k].date, summary |-> entry.val]))

\* Variant of get_daily_summary that fails on a mapping without days.
get_daily_summary_NeedsDays(mapping) ==
    LET run == SummaryFrom(mapping, 1, <<>>)
    IN  IF run.exc = "" /\ Len(mapping) > 0
        THEN [value |-> run.value, outcome |-> "returned"]
        ELSE [value |-> <<>>, outcome |-> "raised"]

\* get_daily_summary, lines 197-238: an exception is not caught
get_daily_summary(mapping) ==
    LET run == SummaryFrom(mapping, 1, <<>>)
    IN  IF run.exc = "" THEN [value |-> run.value, outcome |-> "returned"]
        ELSE [value |-> <<>>, outcome |-> "raised"]

---------------------------------------------------------------------------
(* The pipeline on well-formed payloads: every field array as long as the  *)
(* time array, timestamps in chronological order.                          *)

MaxSamples == 3

\* 2024-06-01T22:00 and 2024-06-02T01:00
SummaryTimestamps ==
    { [date |-> 1, hour |-> 22, suffix |-> ""],
      [date |-> 2, hour |-> 1,  suffix |-> ""] }

\* The hourly measurements drawn: (wave height, swell height, swell period).
\* 1.4336 m rates Good, 0.7168 m OK and 4.5056 m Bad with a swell of
\* 1.2288 m and 8.192 s; a null in any place rates Unknown; a flat sea
\* measures 0 in every place.
Measured(wave_height, swell_height, swell_period) ==
    [wave_height       |-> wave_height,
     swell_wave_height |-> swell_height,
     swell_wave_period |-> swell_period]

SummarySamples ==
    { Measured(Num(14336), Num(12288), Num(81920)),
      Measured(Num(7168),  Num(12288), Num(81920)),
      Measured(Num(45056), Num(12288), Num(81920)),
      Measured(None,       Num(12288), Num(81920)),
      Measured(Num(14336), None,       Num(81920)),
      Measured(Num(14336), Num(12288), None),
      Measured(Num(7168),  None,       None),
      Measured(None,       None,       None),
      Measured(Num(0),     Num(0),     Num(0)) }

Chronological(times) ==
    \A k \in 1..(Len(times) - 1) : times[k].date <= times[k + 1].date

\* A payload whose seven field arrays are as long as its time array.
FullPayload(times, wh, swh, swp) ==
    [kind  |-> "dict",
     items |-> [hourly |->
        [time                 |-> times,
         wave_height          |-> wh,
         wave_direction       |-> [k \in 1..Len(times) |-> SampleValue("wave_direction")],
         wind_wave_height     |-> [k \in 1..Len(times) |-> SampleValue("wind_wave_height")],
         wind_wave_direction  |-> [k \in 1..Len(times) |-> SampleValue("wind_wave_direction")],
         swell_wave_height    |-> swh,
         swell_wave_direction |-> [k \in 1..Len(times) |-> SampleValue("swell_wave_direction")],
         swell_wave_period    |-> swp]]]

InitSummaryData ==
    \/ data \in NoHourlyPayloads
    \/ data = [kind |-> "dict", items |-> [hourly |-> <<>>]]
    \/ data = [kind |-> "dict",
               items |-> [hourly |-> [wave_height |-> <<Num(14336)>>]]]
    \/ \E n \in 0..MaxSamples :
         \E times \in [1..n -> SummaryTimestamps] :
            /\ Chronological(times)
            /\ \E samples \in [1..n -> SummarySamples] :
                  data = FullPayload(times,
                                     [k \in 1..n |-> samples[k].wave_height],
                                     [k \in 1..n |-> samples[k].swell_wave_height],
                                     [k \in 1..n |-> samples[k].swell_wave_period])

InitSummary ==
    /\ pc = "call"
    /\ InitSummaryData
    /\ processed_data = <<>>
    /\ outcome = "pending"
    /\ log = <<>>
    /\ args = NoArgs
    /\ ret = "pending"
    /\ ret_line = -1
    /\ daily_summary = <<>>
    /\ summary_outcome = "pending"
    /\ CallersIdle

\* Mappings a caller can hand to get_daily_summary itself: no day, a day
\* without samples, and a day without samples before a day with one sample.
DirectSample ==
    LET timestamp == [date |-> 2, hour |-> 1, suffix |-> ""]
        payload   == FullPayload(<<timestamp>>, <<Num(14336)>>, <<Num(12288)>>, <<Num(81920)>>)
    IN  WaveData(payload.items["hourly"], timestamp, fromisoformat(ReplaceZ(timestamp)), 1)

DirectMappings ==
    { <<>>,
      << [date |-> 1, samples |-> <<>>] >>,
      << [date |-> 1, samples |-> <<>>], [date |-> 2, samples |-> <<DirectSample>>] >> }

\* One call get_daily_summary(mapping) on a mapping that does not come from
\* process_wave_data (the method is public).
GetDailySummaryDirect ==
    /\ pc = "call"
    /\ data.kind = "None"
    /\ \E mapping \in DirectMappings :
         LET r == get_daily_summary(mapping)
         IN  /\ processed_data' = mapping
             /\ daily_summary' = r.value
             /\ summary_outcome' = r.outcome
    /\ pc' = "summarized"
    /\ UNCHANGED <<data, outcome, log, args, ret, ret_line, caller_vars>>

\* One call daily_summary = extractor.get_daily_summary(processed_data)
GetDailySummary ==
    /\ pc = "done"
    /\ outcome = "returned"
    /\ summary_outcome = "pending"
    /\ LET r == get_daily_summary(processed_data)
       IN  /\ daily_summary' = r.value
           /\ summary_outcome' = r.outcome
    /\ pc' = "summarized"
    /\ UNCHANGED <<data, processed_data, outcome, log, args, ret, ret_line, caller_vars>>

\* Variant of RunAgain in which the summary dict outlives the call (an
\* attribute of the extractor instead of the local of line 207).
RunAgain_KeepsSummary ==
    /\ pc = "summarized"
    /\ summary_outcome = "returned"
    /\ LET r == IF outcome = "returned" THEN process_wave_data(data)
                ELSE [value |-> processed_data, outcome |-> outcome, log |-> log]
           g == get_daily_summary(r.value)
       IN  /\ processed_data' = r.value
           /\ outcome' = r.outcome
           /\ log' = r.log
           /\ daily_summary' = daily_summary \o g.value
           /\ summary_outcome' = g.outcome
    /\ pc' = "repeated"
    /\ UNCHANGED <<data, args, ret, ret_line, caller_vars>>

\* The same calls once more on the same arguments: process_wave_data(data)
\* where it had been called, then get_daily_summary on the grouped mapping.
\* Both build their result in a fresh local dict (lines 153 and 207), read
\* nothing of the extractor but assess_wave_conditions, and only read their
\* argument.
RunAgain ==
    /\ pc = "summarized"
    /\ summary_outcome = "returned"
    /\ LET r == IF outcome = "returned" THEN process_wave_data(data)
                ELSE [value |-> processed_data, outcome |-> outcome, log |-> log]
           g == get_daily_summary(r.value)
       IN  /\ processed_data' = r.value
           /\ outcome' = r.outcome
           /\ log' = r.log
           /\ daily_summary' = g.value
           /\ summary_outcome' = g.outcome
    /\ pc' = "repeated"
    /\ UNCHANGED <<data, args, ret, ret_line, caller_vars>>

NextSummary ==
    \/ ProcessWaveData
    \/ GetDailySummary
    \/ GetDailySummaryDirect
    \/ RunAgain

SpecSummary == InitSummary /\ [][NextSummary]_vars

---------------------------------------------------------------------------
(* The grouping claims, checked under Spec *)

Done == pc = "done" /\ outcome # "pending"

HasHourly == data.kind = "dict" /\ "hourly" \in DOMAIN data.items

InputHourly == data.items["hourly"]

InputTimes == IF HasHourly /\ "time" \in DOMAIN InputHourly THEN InputHourly["time"] ELSE <<>>

\* The strings that are ISO-8601 timestamps (a trailing Z included).
IsTimestamp(text) == text.suffix \in {"", "Z", "+00:00", "+03:00", "-05:00"}

AllParse == \A i \in 1..Len(InputTimes) : IsTimestamp(InputTimes[i])

\* The instant a timestamp denotes, in UTC: its hours east of UTC are taken
\* off the hour it shows; a timestamp without offset is in UTC already.
HoursEast(text) ==
    CASE text.suffix = "+03:00" -> 3
      [] text.suffix = "-05:00" -> 0 - 5
      [] OTHER                  -> 0

UtcHour(text) == (text.hour - HoursEast(text)) % 24

UtcDate(text) == text.date + ((text.hour - HoursEast(text)) \div 24)

RECURSIVE SumLengths(_, _)
SumLengths(mapping, k) ==
    IF k = 0 THEN 0 ELSE Len(mapping[k].samples) + SumLengths(mapping, k - 1)

BucketsHolding(text) ==
    {k \in 1..Len(processed_data) :
        \E j \in 1..Len(processed_data[k].samples) :
            processed_data[k].samples[j].timestamp = text}

Occurrences(text) ==
    Cardinality({<<k, j>> \in (1..Len(processed_data)) \X (1..MaxLen + 1) :
        /\ j <= Len(processed_data[k].samples)
        /\ processed_data[k].samples[j].timestamp = text})

\* C7: grouping is a partition of the input: for every payload whose
\* timestamps all parse, each input index is in exactly one day bucket exactly
\* once, and the bucket lengths add up to the length of the time array.
C7_Partition ==
    Done /\ HasHourly /\ AllParse =>
        /\ SumLengths(processed_data, Len(processed_data)) = Len(InputTimes)
        /\ \A i \in 1..Len(InputTimes) :
              /\ Cardinality(BucketsHolding(InputTimes[i])) = 1
              /\ Occurrences(InputTimes[i])
                   = Cardinality({h \in 1..Len(InputTimes) : InputTimes[h] = InputTimes[i]})

\* C8: every sample's bucket key is the UTC calendar date of its timestamp's
\* instant and its hour is the UTC hour of that instant, also for a timestamp
\* that carries a non-zero UTC offset.
C8_UtcNormalized ==
    Done =>
        \A k \in 1..Len(processed_data) :
            \A j \in 1..Len(processed_data[k].samples) :
                LET sample == processed_data[k].samples[j]
                IN  /\ processed_data[k].date = UtcDate(sample.timestamp)
                    /\ sample.hour = UtcHour(sample.timestamp)

\* Whether field `name` has no value for input position i: its array is
\* missing, too short, or holds null there.
AbsentAt(name, i) ==
    \/ name \notin DOMAIN InputHourly
    \/ i > Len(InputHourly[name])
    \/ InputHourly[name][i] = None

\* C9: a field whose array is missing, shorter than i+1 elements or null at
\* position i is absent in sample i; the sample and all the others are still
\* produced (no failure, no lost sample).
C9_MissingFieldIsAbsent ==
    Done /\ HasHourly /\ AllParse =>
        /\ outcome = "returned"
        /\ SumLengths(processed_data, Len(processed_data)) = Len(InputTimes)
        /\ \A i \in 1..Len(InputTimes) :
              \E k \in 1..Len(processed_data) :
                  \E j \in 1..Len(processed_data[k].samples) :
                      LET sample == processed_data[k].samples[j]
                      IN  /\ sample.timestamp = InputTimes[i]
                          /\ \A name \in Fields :
                                AbsentAt(name, i) => sample[name] = None

HasMalformed == \E i \in 1..Len(InputTimes) : ~IsTimestamp(InputTimes[i])

NoData == ~HasHourly \/ InputTimes = <<>>

FirstMalformed == CHOOSE i \in 1..Len(InputTimes) :
    ~IsTimestamp(InputTimes[i]) /\ \A h \in 1..(i - 1) : IsTimestamp(InputTimes[h])

\* C11: no partial result on a malformed timestamp: when the timestamp at some
\* position cannot be parsed, the result holds none of the samples of the
\* positions before it (nor after it) and no bucket at all.
C11_NoPartialResult ==
    Done /\ HasMalformed =>
        /\ Len(processed_data) = 0
        /\ \A i \in 1..Len(InputTimes) : BucketsHolding(InputTimes[i]) = {}

C11_Witness ==
    /\ Done
    /\ HasMalformed
    /\ FirstMalformed = 2
    /\ \A name \in ClassifiedFields :
          name \in DOMAIN InputHourly /\ InputHourly[name] = <<SampleValue(name), None>>
    /\ \A name \in Fields : name \in DOMAIN InputHourly
    /\ Len(processed_data) = 0

\* The payloads that hold no data: None, the empty object, an object without
\* "hourly", an "hourly" without "time" or with an empty "time".
MissingPayload ==
    \/ data.kind = "None"
    \/ DOMAIN data.items = {}
    \/ "hourly" \notin DOMAIN data.items
    \/ "time" \notin DOMAIN data.items["hourly"]
    \/ data.items["hourly"]["time"] = <<>>

\* C12: a missing payload is not an error: for None, for an empty object, for
\* an object without "hourly" and for an "hourly" without "time" (or with an
\* empty one) process_wave_data returns the empty mapping and does not raise,
\* also when field arrays are there.
C12_MissingPayloadIsEmpty ==
    pc = "done" /\ MissingPayload => outcome = "returned" /\ processed_data = <<>>

C12_Witness ==
    /\ Done
    /\ HasHourly
    /\ "time" \notin DOMAIN InputHourly
    /\ \A name \in Fields :
          name \in DOMAIN InputHourly /\ InputHourly[name] = <<SampleValue(name)>>
    /\ processed_data = <<>>
    /\ outcome = "returned"

---------------------------------------------------------------------------
(* Grouping of payloads whose timestamps come in any order, with auxiliary *)
(* fields that vary: every field array as long as the time array.          *)

\* 2024-06-01T22:00, 2024-06-01T23:00 and 2024-06-02T01:00
OrderTimestamps ==
    { [date |-> 1, hour |-> 22, suffix |-> ""],
      [date |-> 1, hour |-> 23, suffix |-> ""],
      [date |-> 2, hour |-> 1,  suffix |-> ""] }

\* The classified values of a sample: rated Good, or without a wave height.
OrderSamples ==
    { Measured(Num(14336), Num(12288), Num(81920)),
      Measured(None,       Num(12288), Num(81920)) }

\* The auxiliary values of a sample: wave direction, wind wave height, wind
\* wave direction, swell direction (degrees and metres, or null).
Auxiliary(wave_direction, wind_wave_height, wind_wave_direction, swell_wave_direction) ==
    [wave_direction       |-> wave_direction,
     wind_wave_height     |-> wind_wave_height,
     wind_wave_direction  |-> wind_wave_direction,
     swell_wave_direction |-> swell_wave_direction]

DefaultAuxiliary ==
    Auxiliary(SampleValue("wave_direction"), SampleValue("wind_wave_height"),
              SampleValue("wind_wave_direction"), SampleValue("swell_wave_direction"))

OrderAuxiliaries ==
    { DefaultAuxiliary,
      Auxiliary(Num(900000), Num(52000), Num(450000), Num(3150000)),
      Auxiliary(None, None, None, None) }

\* The payload whose i-th sample has timestamp times[i], classified values
\* samples[i] and auxiliary values aux[i].
OrderPayload(times, samples, aux) ==
    [kind  |-> "dict",
     items |-> [hourly |->
        [time                 |-> times,
         wave_height          |-> [k \in 1..Len(times) |-> samples[k].wave_height],
         wave_direction       |-> [k \in 1..Len(times) |-> aux[k].wave_direction],
         wind_wave_height     |-> [k \in 1..Len(times) |-> aux[k].wind_wave_height],
         wind_wave_direction  |-> [k \in 1..Len(times) |-> aux[k].wind_wave_direction],
         swell_wave_height    |-> [k \in 1..Len(times) |-> samples[k].swell_wave_height],
         swell_wave_direction |-> [k \in 1..Len(times) |-> aux[k].swell_wave_direction],
         swell_wave_period    |-> [k \in 1..Len(times) |-> samples[k].swell_wave_period]]]]

InitOrder ==
    /\ pc = "call"
    /\ \E n \in 0..MaxSamples :
         \E times   \in [1..n -> OrderTimestamps],
            samples \in [1..n -> OrderSamples],
            aux     \in [1..n -> OrderAuxiliaries] :
                data = OrderPayload(times, samples, aux)
    /\ processed_data = <<>>
    /\ outcome = "pending"
    /\ log = <<>>
    /\ args = NoArgs
    /\ ret = "pending"
    /\ ret_line = -1
    /\ daily_summary = <<>>
    /\ summary_outcome = "pending"
    /\ CallersIdle

NextOrder == ProcessWaveData

SpecOrder == InitOrder /\ [][NextOrder]_vars

---------------------------------------------------------------------------
(* The callers: main() of src/extract_info.py (lines 342-407) and main()   *)
(* of src/dashboard.py (lines 583-862).  They are two programs; the model  *)
(* runs one or the other.  Writing the files (save_to_file, save_to_excel) *)
(* is taken to succeed.                                                    *)

\* What fetch_marine_data may return: None after a failed request, or the
\* decoded JSON object: empty, without "hourly", with an empty "hourly", or
\* with hourly arrays (one Good sample; a Good and an Unknown sample on one
\* day; one sample with a wave height and no swell; one without values).
FetchResults ==
    { NoPayload,
      [kind |-> "dict", items |-> <<>>],
      [kind |-> "dict", items |-> [latitude |-> 320800]],
      [kind |-> "dict", items |-> [hourly |-> <<>>]],
      FullPayload(<<[date |-> 1, hour |-> 22, suffix |-> ""]>>,
                  <<Num(14336)>>, <<Num(12288)>>, <<Num(81920)>>),
      FullPayload(<<[date |-> 1, hour |-> 22, suffix |-> ""],
                    [date |-> 2, hour |-> 1, suffix |-> ""]>>,
                  <<Num(14336), Num(45056)>>, <<Num(12288), None>>,
                  <<Num(81920), Num(81920)>>),
      FullPayload(<<[date |-> 1, hour |-> 22, suffix |-> ""]>>,
                  <<Num(7168)>>, <<None>>, <<None>>),
      FullPayload(<<[date |-> 1, hour |-> 22, suffix |-> ""]>>,
                  <<None>>, <<None>>, <<None>>) }

\* What the core makes of each payload a fetch can obtain: the grouped mapping
\* of process_wave_data and the summary get_daily_summary gives for it.
Processed == [raw_data \in FetchResults |-> process_wave_data(raw_data).value]

Summarised == [raw_data \in FetchResults |-> get_daily_summary(Processed[raw_data]).value]

\* sum(summary[field] for summary in daily_summary.values()) over the first k days
RECURSIVE SumOf(_, _, _)
SumOf(summary, field, k) ==
    IF k = 0 THEN 0 ELSE SumOf(summary, field, k - 1) + summary[k].summary[field]

\* sum(len(hourly_data) for hourly_data in processed_data.values()) over the first k days
RECURSIVE CountSamples(_, _)
CountSamples(mapping, k) ==
    IF k = 0 THEN 0 ELSE CountSamples(mapping, k - 1) + Len(mapping[k].samples)

Line(text) == [text |-> text]

\* f"{label}: {hours} hours ({hours/total_hours*100:.1f}%)", lines 390-392
Share(label, hours, total_hours) == [text |-> label, hours |-> hours, of |-> total_hours]

\* lines 384-392: the totals and their shares of total_hours; the first
\* division raises ZeroDivisionError when total_hours is 0.
Distribution(total_good, total_ok, total_bad) ==
    LET total_hours == total_good + total_ok + total_bad
    IN  IF total_hours = 0
        THEN [lines |-> <<Line("Overall Condition Distribution"),
                          [text |-> "Total Hours", hours |-> 0]>>,
              exc   |-> "ZeroDivisionError"]
        ELSE [lines |-> <<Line("Overall Condition Distribution"),
                          [text |-> "Total Hours", hours |-> total_hours],
                          Share("Good", total_good, total_hours),
                          Share("OK", total_ok, total_hours),
                          Share("Bad", total_bad, total_hours)>>,
              exc   |-> ""]

\* lines 378-403: the printout for a non-empty grouped mapping, shares being
\* the distribution of lines 383-392; the per-day lines follow only if the
\* distribution did not raise.
Printout(processed, summary, shares) ==
    [processed_data |-> processed, daily_summary |-> summary,
     lines |-> <<Line("Marine Weather Data Summary")>> \o shares.lines
                  \o (IF shares.exc = ""
                      THEN [k \in 1..Len(summary) |->
                               [text |-> "Overall Rating",
                                date |-> summary[k].date,
                                rating |-> summary[k].summary.best_condition]]
                      ELSE <<>>),
     exc |-> shares.exc]

\* lines 356-405: main() after processed_data = process_wave_data(raw_data),
\* summary being what get_daily_summary gives for processed.
Report(processed, summary) ==
    IF Len(processed) = 0
    THEN [processed_data |-> processed, daily_summary |-> <<>>,
          lines |-> <<Line("Failed to process wave data")>>, exc |-> ""]
    ELSE Printout(processed, summary,
                  Distribution(SumOf(summary, "good_conditions_hours", Len(summary)),
                               SumOf(summary, "ok_conditions_hours", Len(summary)),
                               SumOf(summary, "bad_conditions_hours", Len(summary))))

\* main(), src/extract_info.py:342-407, after raw_data = fetch_marine_data():
\* its locals processed_data and daily_summary, what it printed and the
\* exception that ended it ("" if none).
main(raw_data) ==
    IF Falsy(raw_data)
    THEN [processed_data |-> <<>>, daily_summary |-> <<>>,
          lines |-> <<Line("Failed to fetch marine data")>>, exc |-> ""]
    ELSE Report(Processed[raw_data], Summarised[raw_data])

\* One run of the program extract_info.py.
Main ==
    /\ printed = NotPrinted
    /\ session_state = <<>> /\ shown = NothingShown
    /\ pc = "call"
    /\ \E raw_data \in FetchResults :
         \E r \in {main(raw_data)} :
             /\ data' = raw_data
             /\ processed_data' = r.processed_data
             /\ daily_summary' = r.daily_summary
             /\ printed' = [lines |-> r.lines, exc |-> r.exc, ran |-> TRUE]
    /\ pc' = "main"
    /\ UNCHANGED <<args, ret, ret_line, outcome, log, summary_outcome, session_state, shown>>

\* One entry of BEACH_OPTIONS; coordinates in 1e-7 degrees.
Beach(lat, lon, name) == [lat |-> lat, lon |-> lon, name |-> name]

\* src/beaches.py, lines 1-12
BEACH_OPTIONS ==
    "Dolphinarium"      :> Beach(320698816, 347630870, "Dolphinarium Beach")
    @@ "Maravi"         :> Beach(320604267, 347587907, "Maravi Beach")
    @@ "Gordon Beach"   :> Beach(320826751, 347673111, "Gordon Beach")
    @@ "Frishman Beach" :> Beach(320801646, 347667165, "Frishman Beach")
    @@ "Bograshov Beach" :> Beach(320777433, 347660297, "Bograshov Beach")
    @@ "Antenot"        :> Beach(321288621, 347854220, "Antenot Beach")
    @@ "Hilton Beach"   :> Beach(320920000, 347580000, "Hilton Beach")
    @@ "Herzliya Beach" :> Beach(321800000, 348000000, "Herzliya Beach")
    @@ "Bat Yam Beach"  :> Beach(320200000, 347500000, "Bat Yam Beach")
    @@ "Holon Beach"    :> Beach(320100000, 347800000, "Holon Beach")

\* The ends of the "Forecast Days" slider, line 628.
ForecastDays == {1, 7}

\* d[key] = value and del d[key] on a dict
DictSet(d, key, value) ==
    [k \in DOMAIN d \cup {key} |-> IF k = key THEN value ELSE d[k]]

DictDel(d, key) == [k \in DOMAIN d \ {key} |-> d[k]]

Abs(x) == IF x < 0 THEN 0 - x ELSE x

\* lines 586-589
AutoFetchInit(ss) ==
    IF "auto_fetch_initialized" \notin DOMAIN ss
    THEN DictSet(DictSet(DictSet(ss, "auto_fetch_initialized", TRUE),
                         "fetch_data", TRUE), "auto_fetch", TRUE)
    ELSE ss

\* Variant of BeachChanged that keeps the stored data.
BeachChanged_KeepsData(ss, beach_name) == ss

\* lines 613-617: a change of beach deletes the stored data
BeachChanged(ss, beach_name) ==
    IF "current_beach" \in DOMAIN ss /\ ss["current_beach"] # beach_name
    THEN DictDel(ss, "marine_data")
    ELSE ss

\* lines 641-644
StoreParameters(ss, lat, lon, beach_name, forecast_days) ==
    DictSet(DictSet(DictSet(DictSet(ss, "current_lat", lat), "current_lon", lon),
                    "current_beach", beach_name), "current_forecast_days", forecast_days)

\* lines 670-674: the fetch button
FetchClicked(ss, clicked) ==
    IF clicked THEN DictDel(DictSet(ss, "fetch_data", TRUE), "marine_data") ELSE ss

\* lines 705-743: the status indicator (0.001 degrees are 10000 units)
StatusIndicator(ss, lat, lon) ==
    IF "marine_data" \notin DOMAIN ss THEN "none"
    ELSE LET data_lat == ss["marine_data"].metadata.latitude
             data_lon == ss["marine_data"].metadata.longitude
         IN  IF Abs(data_lat - lat) > 10000 \/ Abs(data_lon - lon) > 10000
             THEN "Data shown is for different coordinates"
             ELSE "Data is current for selected location"

\* line 768
ShouldFetch(ss) ==
    \/ "fetch_data" \in DOMAIN ss /\ ss["fetch_data"]
    \/ "auto_fetch" \in DOMAIN ss /\ ss["auto_fetch"]

\* lines 769-835: the fetch step, raw_data being what fetch_marine_data returns
FetchStep(ss, raw_data, lat, lon, beach_name, forecast_days) ==
    LET fetch_lat  == Get(ss, "current_lat", lat)
        fetch_lon  == Get(ss, "current_lon", lon)
        fetch_days == Get(ss, "current_forecast_days", forecast_days)
    IN  IF Falsy(raw_data)
        THEN [session |-> ss, error |-> "Failed to fetch data"]
        ELSE LET processed    == Processed[raw_data]
                 summary      == Summarised[raw_data]
                 data_to_save ==
                     [raw_data       |-> raw_data,
                      processed_data |-> processed,
                      daily_summary  |-> summary,
                      metadata       |-> [latitude        |-> fetch_lat,
                                          longitude       |-> fetch_lon,
                                          beach_name      |-> Get(ss, "current_beach", beach_name),
                                          forecast_length |-> fetch_days]]
             IN  [session |-> DictSet(DictSet(DictSet(ss, "marine_data", data_to_save),
                                              "fetch_data", FALSE), "auto_fetch", FALSE),
                  error   |-> ""]

\* lines 841-862: the key metrics; the shares divide by total_hours
KeyMetrics(ss) ==
    IF "marine_data" \notin DOMAIN ss THEN [metrics |-> "none", total_hours |-> 0]
    ELSE LET processed   == ss["marine_data"].processed_data
             total_hours == CountSamples(processed, Len(processed))
         IN  IF total_hours = 0
             THEN [metrics |-> "ZeroDivisionError", total_hours |-> 0]
             ELSE [metrics |-> "shown", total_hours |-> total_hours]

\* The session state on reaching the fetch step of line 768: lines 586-674
\* without the "Refresh Parameters" button.
BeforeFetch(ss, selected_beach, forecast_days, button) ==
    LET beach == BEACH_OPTIONS[selected_beach]
    IN  FetchClicked(StoreParameters(BeachChanged(AutoFetchInit(ss), beach.name),
                                     beach.lat, beach.lon, beach.name, forecast_days),
                     button = "fetch")

\* The run calls fetch_marine_data: it gets past line 655 and should_fetch holds.
Fetches(ss, selected_beach, forecast_days, button) ==
    /\ button # "refresh"
    /\ ShouldFetch(BeforeFetch(ss, selected_beach, forecast_days, button))

\* What the run shows when line 655 restarts the script.
Restarted(selected_beach) ==
    [ran |-> TRUE, beach |-> selected_beach, rerun |-> TRUE,
     status |-> "none", indicated |-> <<>>,
     fetched |-> "no", error |-> "", displayed |-> "",
     metrics |-> "none", total_hours |-> 0]

\* What a run that gets past line 655 shows and leaves in the session state:
\* pressed is the session state at the status indicator, fetched the result of
\* the fetch step, metrics that of the key metrics.
Rendered(selected_beach, raw_data, pressed, fetching, fetched, metrics) ==
    [session |-> fetched.session,
     shown   |-> [ran |-> TRUE, beach |-> selected_beach, rerun |-> FALSE,
                  status |-> StatusIndicator(pressed, BEACH_OPTIONS[selected_beach].lat,
                                             BEACH_OPTIONS[selected_beach].lon),
                  indicated |-> IF "marine_data" \in DOMAIN pressed
                                THEN <<pressed["marine_data"].metadata.latitude,
                                       pressed["marine_data"].metadata.longitude>>
                                ELSE <<>>,
                  displayed |-> IF "marine_data" \in DOMAIN fetched.session
                                THEN fetched.session["marine_data"].metadata.beach_name
                                ELSE "",
                  fetched |-> IF ~fetching THEN "no"
                              ELSE IF raw_data.kind = "None" THEN "None"
                              ELSE IF Falsy(raw_data) THEN "empty"
                              ELSE "data",
                  error |-> fetched.error,
                  metrics |-> metrics.metrics,
                  total_hours |-> metrics.total_hours]]

\* lines 768-862 on the session state pressed of line 768
FromFetch(selected_beach, forecast_days, raw_data, pressed, fetching, fetched) ==
    Rendered(selected_beach, raw_data, pressed, fetching, fetched,
             KeyMetrics(fetched.session))

\* lines 705-862 on the session state pressed of the status indicator
FromIndicator(selected_beach, forecast_days, raw_data, pressed, fetching) ==
    FromFetch(selected_beach, forecast_days, raw_data, pressed, fetching,
              IF fetching
              THEN FetchStep(pressed, raw_data, BEACH_OPTIONS[selected_beach].lat,
                             BEACH_OPTIONS[selected_beach].lon,
                             BEACH_OPTIONS[selected_beach].name, forecast_days)
              ELSE [session |-> pressed, error |-> ""])

\* One run of the dashboard script, lines 583-862, on the session state ss
\* with the widget values of the run: the beach selected, the slider, the
\* button pressed (if any), and the payload the fetch (if any) obtains.
dashboard(ss, selected_beach, forecast_days, button, raw_data) ==
    IF button = "refresh"
    THEN [session |-> BeforeFetch(ss, selected_beach, forecast_days, button),
          shown   |-> Restarted(selected_beach)]
    ELSE FromIndicator(selected_beach, forecast_days, raw_data,
                       BeforeFetch(ss, selected_beach, forecast_days, button),
                       Fetches(ss, selected_beach, forecast_days, button))

\* The buttons of lines 654 and 670; a click reruns the script with that
\* button pressed, any other widget change reruns it with none pressed.
Buttons == {"none", "refresh", "fetch"}

\* One run of the dashboard script: the first one of a session or a rerun
\* after a widget changed.  A payload is obtained only by a run that fetches.
DashboardRun ==
    /\ printed = NotPrinted
    /\ pc = "call"
    /\ \E selected_beach \in DOMAIN BEACH_OPTIONS, forecast_days \in ForecastDays,
          button \in Buttons :
         \E raw_data \in IF Fetches(session_state, selected_beach, forecast_days, button)
                         THEN FetchResults ELSE {NoPayload} :
            \E r \in {dashboard(session_state, selected_beach, forecast_days,
                                 button, raw_data)} :
                /\ session_state' = r.session
                /\ shown' = r.shown
    /\ UNCHANGED <<pc, args, ret, ret_line, data, processed_data, outcome, log,
                   daily_summary, summary_outcome, printed>>

InitCallers ==
    /\ pc = "call"
    /\ data = NoPayload
    /\ processed_data = <<>>
    /\ outcome = "pending"
    /\ log = <<>>
    /\ args = NoArgs
    /\ ret = "pending"
    /\ ret_line = -1
    /\ daily_summary = <<>>
    /\ summary_outcome = "pending"
    /\ CallersIdle

NextCallers ==
    \/ Main
    \/ DashboardRun

SpecCallers == InitCallers /\ [][NextCallers]_vars

---------------------------------------------------------------------------
(* The summary claims, checked under SpecSummary *)

Summarized == pc = "summarized"

Dates == {1, 2}

\* The samples grouped under a date (none if the date is no key).
Bucket(date) ==
    IF \E k \in 1..Len(processed_data) : processed_data[k].date = date
    THEN processed_data[CHOOSE k \in 1..Len(processed_data) :
                            processed_data[k].date = date].samples
    ELSE <<>>

GroupedDates == {processed_data[k].date : k \in 1..Len(processed_data)}

SummaryDates == {daily_summary[k].date : k \in 1..Len(daily_summary)}

SummaryOf(date) ==
    daily_summary[CHOOSE k \in 1..Len(daily_summary) : daily_summary[k].date = date].summary

\* The positions of a bucket whose field is present, and the values there.
PresentAt(samples, name) == {j \in 1..Len(samples) : Present(samples[j][name])}

ValuesAt(samples, name) == {Val(samples[j][name]) : j \in PresentAt(samples, name)}

Largest(values) == CHOOSE v \in values : \A u \in values : u <= v

Smallest(values) == CHOOSE v \in values : \A u \in values : v <= u

Rated(samples, label) == {j \in 1..Len(samples) : samples[j].wave_condition = label}

OwnValues(sample) ==
    [wave_height  |-> sample.wave_height,
     swell_height |-> sample.swell_wave_height,
     swell_period |-> sample.swell_wave_period]

\* C13: every sample of every bucket that process_wave_data returns carries
\* the rating of the classifier's procedure on the sample's own wave height,
\* swell height and swell period, and Unknown if one of the three is absent.
C13_RatedFromOwnValues ==
    outcome = "returned" =>
        \A k \in 1..Len(processed_data) :
            \A j \in 1..Len(processed_data[k].samples) :
                LET sample == processed_data[k].samples[j]
                IN  /\ sample.wave_condition = FirstMatch(ProcedureRules(OwnValues(sample)))
                    /\ SomeAbsent(OwnValues(sample)) => sample.wave_condition = "Unknown"

\* One day holding a Good sample followed by a Bad one and an Unknown one.
C13_Witness ==
    /\ pc = "done" /\ outcome = "returned"
    /\ Len(Bucket(1)) = 3
    /\ Bucket(1)[1].wave_condition = "Good"
    /\ Bucket(1)[2].wave_condition = "Bad"
    /\ Bucket(1)[3].wave_condition = "Unknown"
    /\ Bucket(1)[3].wave_height = None

\* C14: the summary has an entry for a date exactly if the date's bucket
\* holds a sample with a present wave height; a bucket without one (or
\* without samples) gives no entry whatever swell values it has, no date
\* appears twice, and every summarized date is a key of the grouped input.
C14_OmissionRule ==
    Summarized =>
        /\ \A date \in Dates :
              date \in SummaryDates <=> PresentAt(Bucket(date), "wave_height") # {}
        /\ SummaryDates \subseteq GroupedDates
        /\ Cardinality(SummaryDates) = Len(daily_summary)

\* Day 1 has swell values but no wave height and is left out; day 2 is kept.
C14_Witness ==
    /\ Summarized
    /\ Len(Bucket(1)) = 2
    /\ PresentAt(Bucket(1), "wave_height") = {}
    /\ PresentAt(Bucket(1), "swell_wave_height") = {1, 2}
    /\ PresentAt(Bucket(1), "swell_wave_period") = {1, 2}
    /\ PresentAt(Bucket(2), "wave_height") = {1}
    /\ SummaryDates = {2}

\* C15: for every summarized day, max_wave_height and min_wave_height are
\* the largest and the smallest present wave height of the bucket, and
\* min_wave_height <= avg_wave_height <= max_wave_height.
C15_AggregationSound ==
    Summarized =>
        \A date \in SummaryDates :
            LET s      == SummaryOf(date)
                values == ValuesAt(Bucket(date), "wave_height")
            IN  /\ s.max_wave_height = Num(Largest(values))
                /\ s.min_wave_height = Num(Smallest(values))
                /\ Val(s.min_wave_height) * s.avg_wave_height[2] <= s.avg_wave_height[1]
                /\ s.avg_wave_height[1] <= Val(s.max_wave_height) * s.avg_wave_height[2]

\* C16: for every summarized day, data_points is the number of samples of
\* the day's bucket, the samples with absent values or rated Unknown included.
C16_CountsEverySample ==
    Summarized =>
        \A date \in SummaryDates : SummaryOf(date).data_points = Len(Bucket(date))

\* A day of three samples of which one has a wave height.
C16_Witness ==
    /\ Summarized
    /\ Len(Bucket(1)) = 3
    /\ PresentAt(Bucket(1), "wave_height") = {2}
    /\ SummaryOf(1).data_points = 3

\* The exact sum of a field over the first k samples, absent values left out.
RECURSIVE Total(_, _, _)
Total(samples, name, k) ==
    IF k = 0 THEN 0
    ELSE Total(samples, name, k - 1)
            + (IF Present(samples[k][name]) THEN Val(samples[k][name]) ELSE 0)

Kept(date) == PresentAt(Bucket(date), "wave_height") # {}

\* C17: in a summarized day max_swell_height is absent exactly if no sample
\* has a swell height (otherwise it is the largest one), avg_swell_period is
\* absent exactly if no sample has a swell period (otherwise it is the mean
\* of the present ones, as the float nearest to it; the drawn periods have
\* sums that are floats), and every day with a present wave height keeps its entry whatever is absent.
C17_IndependentFallbacks ==
    Summarized =>
        /\ \A date \in Dates : Kept(date) => date \in SummaryDates
        /\ \A date \in SummaryDates :
              LET s       == SummaryOf(date)
                  swells  == ValuesAt(Bucket(date), "swell_wave_height")
                  periods == PresentAt(Bucket(date), "swell_wave_period")
              IN  /\ s.max_swell_height = None <=> swells = {}
                  /\ swells # {} => s.max_swell_height = Num(Largest(swells))
                  /\ s.avg_swell_period = None <=> periods = {}
                  /\ periods # {} =>
                        s.avg_swell_period =
                            FloatRound(Total(Bucket(date), "swell_wave_period", Len(Bucket(date))),
                                       Cardinality(periods))

\* Day 1 has a period and no swell height, day 2 a swell height and no period.
C17_Witness ==
    /\ Summarized
    /\ SummaryDates = {1, 2}
    /\ SummaryOf(1).max_swell_height = None
    /\ SummaryOf(1).avg_swell_period = <<81920, 1>>
    /\ SummaryOf(2).max_swell_height = Num(12288)
    /\ SummaryOf(2).avg_swell_period = None

Hours(s) == s.good_conditions_hours + s.ok_conditions_hours + s.bad_conditions_hours

\* C18: for every summarized day the three condition counts are the numbers
\* of the day's samples rated Good, OK and Bad; their sum is data_points
\* less the number of samples rated Unknown, so at most data_points, and
\* equal to it exactly if no sample of the day lacks a wave height, swell
\* height or swell period.
C18_ConditionCounts ==
    Summarized =>
        \A date \in SummaryDates :
            LET s == SummaryOf(date)
                b == Bucket(date)
            IN  /\ s.good_conditions_hours = Cardinality(Rated(b, "Good"))
                /\ s.ok_conditions_hours = Cardinality(Rated(b, "OK"))
                /\ s.bad_conditions_hours = Cardinality(Rated(b, "Bad"))
                /\ Hours(s) = s.data_points - Cardinality(Rated(b, "Unknown"))
                /\ Hours(s) <= s.data_points
                /\ Hours(s) = s.data_points
                      <=> \A j \in 1..Len(b) : ~SomeAbsent(OwnValues(b[j]))

\* A day with one Good, one OK and one Unknown sample.
C18_Witness ==
    /\ Summarized
    /\ Len(Bucket(1)) = 3
    /\ Cardinality(Rated(Bucket(1), "Good")) = 1
    /\ Cardinality(Rated(Bucket(1), "OK")) = 1
    /\ Cardinality(Rated(Bucket(1), "Unknown")) = 1
    /\ Hours(SummaryOf(1)) = 2

BestRule(s) ==
    IF s.good_conditions_hours > 0 THEN "Good"
    ELSE IF s.ok_conditions_hours > 0 THEN "OK" ELSE "Bad"

Rank(label) == CASE label = "Good" -> 3 [] label = "OK" -> 2 [] label = "Bad" -> 1 [] OTHER -> 0

\* The label is carried by a sample of the bucket and no sample carries a better one.
BestCarried(b, label) ==
    /\ Rated(b, label) # {}
    /\ \A j \in 1..Len(b) : Rank(b[j].wave_condition) <= Rank(label)

\* C19 as stated: best_condition follows the good/ok/bad rule and is, for
\* every summarized day, the best label carried by a sample of the day.
C19_Original ==
    Summarized =>
        \A date \in SummaryDates :
            /\ SummaryOf(date).best_condition = BestRule(SummaryOf(date))
            /\ BestCarried(Bucket(date), SummaryOf(date).best_condition)

\* C19: for every summarized day best_condition is Good if good_hours > 0,
\* otherwise OK if ok_hours > 0, otherwise Bad; it is the best label carried
\* by a sample of the day if some sample is rated Good, OK or Bad, and Bad
\* if every sample of the day is Unknown; one Good hour makes the day Good.
C19_BestCondition ==
    Summarized =>
        \A date \in SummaryDates :
            LET s == SummaryOf(date)
                b == Bucket(date)
            IN  /\ s.best_condition = BestRule(s)
                /\ Rated(b, "Unknown") # 1..Len(b) => BestCarried(b, s.best_condition)
                /\ Rated(b, "Unknown") = 1..Len(b) => s.best_condition = "Bad"
                /\ Rated(b, "Good") # {} => s.best_condition = "Good"

\* A day with one Good hour after two Bad ones.
C19_Witness ==
    /\ Summarized
    /\ Len(Bucket(1)) = 3
    /\ Bucket(1)[1].wave_condition = "Bad"
    /\ Bucket(1)[2].wave_condition = "Bad"
    /\ Bucket(1)[3].wave_condition = "Good"
    /\ SummaryOf(1).best_condition = "Good"

\* C20: get_daily_summary of the empty mapping returns the empty mapping and
\* raises nothing; process_wave_data of a missing payload returns the empty
\* mapping, so the two calls in a row give empty results at both stages.
C20_EmptyPropagates ==
    /\ Summarized /\ processed_data = <<>> =>
          daily_summary = <<>> /\ summary_outcome = "returned"
    /\ MissingPayload /\ outcome # "pending" =>
          outcome = "returned" /\ processed_data = <<>>
    /\ MissingPayload /\ outcome # "pending" /\ Summarized =>
          daily_summary = <<>> /\ summary_outcome = "returned"

\* The pipeline has run on a payload whose hourly container has no time series.
C20_Witness ==
    /\ Summarized /\ outcome = "returned"
    /\ HasHourly /\ "time" \notin DOMAIN InputHourly
    /\ "wave_height" \in DOMAIN InputHourly
    /\ processed_data = <<>>
    /\ daily_summary = <<>> /\ summary_outcome = "returned"

\* C21: get_daily_summary raises nothing on any mapping process_wave_data
\* returns: no max, min or mean of an empty list and no division by zero,
\* whatever mix of present and absent values the buckets hold; a day without
\* a present value falls back to an absent field or to no entry.
C21_NoArithmeticError ==
    /\ summary_outcome # "raised"
    /\ Summarized => summary_outcome = "returned"
    /\ Summarized =>
          \A date \in GroupedDates :
              IF Kept(date)
              THEN /\ date \in SummaryDates
                   /\ PresentAt(Bucket(date), "swell_wave_height") = {}
                         => SummaryOf(date).max_swell_height = None
                   /\ PresentAt(Bucket(date), "swell_wave_period") = {}
                         => SummaryOf(date).avg_swell_period = None
              ELSE date \notin SummaryDates

\* Day 1 has no measurement at all, day 2 wave heights and no swell values.
C21_Witness ==
    /\ Summarized /\ outcome = "returned" /\ summary_outcome = "returned"
    /\ Len(Bucket(1)) = 1 /\ Len(Bucket(2)) = 2
    /\ \A name \in ClassifiedFields : PresentAt(Bucket(1), name) = {}
    /\ PresentAt(Bucket(2), "wave_height") = {1, 2}
    /\ PresentAt(Bucket(2), "swell_wave_height") = {}
    /\ PresentAt(Bucket(2), "swell_wave_period") = {}
    /\ SummaryDates = {2}

Repeated == pc = "repeated"

C23_ZeroIsPresent ==
    /\ \A k \in 1..Len(processed_data) :
          \A j \in 1..Len(processed_data[k].samples) :
              ~SomeAbsent(OwnValues(processed_data[k].samples[j]))
                  => processed_data[k].samples[j].wave_condition # "Unknown"
    /\ Summarized =>
          \A date \in GroupedDates :
              LET b == Bucket(date)
              IN  /\ ValuesAt(b, "wave_height") = {0} =>
                        /\ date \in SummaryDates
                        /\ SummaryOf(date).max_wave_height = Num(0)
                        /\ SummaryOf(date).min_wave_height = Num(0)
                        /\ SummaryOf(date).avg_wave_height = <<0, 1>>
                  /\ date \in SummaryDates /\ 0 \in ValuesAt(b, "wave_height") =>
                        SummaryOf(date).min_wave_height = Num(0)
                  /\ date \in SummaryDates /\ ValuesAt(b, "swell_wave_height") = {0} =>
                        SummaryOf(date).max_swell_height = Num(0)
                  /\ date \in SummaryDates /\ ValuesAt(b, "swell_wave_period") = {0} =>
                        SummaryOf(date).avg_swell_period = <<0, 1>>

\* A day of one flat-sea sample and one sample without measurements.
C23_Witness ==
    /\ Summarized
    /\ Len(Bucket(1)) = 2
    /\ OwnValues(Bucket(1)[1]) = [wave_height |-> Num(0), swell_height |-> Num(0),
                                  swell_period |-> Num(0)]
    /\ Bucket(1)[1].wave_condition = "Bad"
    /\ SomeAbsent(OwnValues(Bucket(1)[2]))
    /\ SummaryOf(1).max_wave_height = Num(0)
    /\ SummaryOf(1).avg_wave_height = <<0, 1>>
    /\ SummaryOf(1).max_swell_height = Num(0)
    /\ SummaryOf(1).avg_swell_period = <<0, 1>>

\* C28: a summarized day whose samples are all rated Unknown (a wave
\* height is present, but every sample lacks one of the three classified
\* values) has good, ok and bad hours of 0 and best_condition Bad; the
\* best_condition of a day is never Unknown.
C28_AllUnknownDay ==
    Summarized =>
        \A date \in SummaryDates :
            LET s == SummaryOf(date)
                b == Bucket(date)
            IN  /\ s.best_condition \in {"Good", "OK", "Bad"}
                /\ (\A j \in 1..Len(b) : SomeAbsent(OwnValues(b[j]))) =>
                      /\ s.good_conditions_hours = 0
                      /\ s.ok_conditions_hours = 0
                      /\ s.bad_conditions_hours = 0
                      /\ s.best_condition = "Bad"

\* A day of two samples with a wave height and no swell height.
C28_Witness ==
    /\ Summarized
    /\ Len(Bucket(1)) = 2
    /\ PresentAt(Bucket(1), "wave_height") = {1, 2}
    /\ PresentAt(Bucket(1), "swell_wave_height") = {}
    /\ Rated(Bucket(1), "Unknown") = {1, 2}
    /\ SummaryOf(1).best_condition = "Bad"
    /\ SummaryOf(1).bad_conditions_hours = 0

---------------------------------------------------------------------------
(* The order and carry-through claims, checked under SpecOrder *)

\* The date written in the i-th timestamp of the input.
InputDate(i) == InputTimes[i].date

\* Where the sample of input index i belongs: the bucket numbered by the
\* count of distinct dates met up to the first timestamp of its date, at the
\* position numbered by the count of timestamps of its date up to i.
FirstOfDate(i) ==
    CHOOSE f \in 1..i :
        InputDate(f) = InputDate(i) /\ \A h \in 1..(f - 1) : InputDate(h) # InputDate(i)

BucketOf(i) == Cardinality({InputDate(h) : h \in 1..FirstOfDate(i)})

PositionOf(i) == Cardinality({h \in 1..i : InputDate(h) = InputDate(i)})

SampleOf(i) == processed_data[BucketOf(i)].samples[PositionOf(i)]

Placed(i) ==
    /\ BucketOf(i) <= Len(processed_data)
    /\ processed_data[BucketOf(i)].date = InputDate(i)
    /\ PositionOf(i) <= Len(processed_data[BucketOf(i)].samples)

\* C25: the date keys of the result are the distinct dates of the time array
\* in the order of their first timestamp, and each bucket holds the samples
\* of its date in the order of their input indices, also when the dates are
\* not chronological or interleave: a later timestamp of a date already met
\* goes to the end of that date's bucket.
C25_OrderPreserved ==
    Done /\ outcome = "returned" /\ HasHourly =>
        /\ Len(processed_data) = Cardinality({InputDate(i) : i \in 1..Len(InputTimes)})
        /\ \A i \in 1..Len(InputTimes) :
              /\ Placed(i)
              /\ SampleOf(i).timestamp = InputTimes[i]
              /\ SampleOf(i).hour = InputTimes[i].hour
              /\ SampleOf(i).wave_height = InputHourly["wave_height"][i]
        /\ \A k \in 1..Len(processed_data) :
              Len(processed_data[k].samples)
                  = Cardinality({i \in 1..Len(InputTimes) : InputDate(i) = processed_data[k].date})

\* June 2nd, then June 1st, then June 2nd again.
C25_Witness ==
    /\ Done /\ outcome = "returned"
    /\ Len(InputTimes) = 3
    /\ InputDate(1) = 2 /\ InputDate(2) = 1 /\ InputDate(3) = 2
    /\ InputHourly["wave_height"] = <<Num(14336), Num(14336), None>>
    /\ Len(processed_data) = 2
    /\ processed_data[1].date = 2 /\ Len(processed_data[1].samples) = 2
    /\ processed_data[1].samples[2].wave_height = None
    /\ processed_data[2].date = 1

\* The payload with every auxiliary value replaced by a default.
WithDefaultAuxiliary(payload) ==
    [payload EXCEPT !.items["hourly"] =
        [name \in DOMAIN @ |->
            IF name \in DOMAIN DefaultAuxiliary
            THEN [k \in 1..Len(@[name]) |-> DefaultAuxiliary[name]]
            ELSE @[name]]]

\* The buckets and ratings of a grouped mapping, without the values.
Ratings(mapping) ==
    [k \in 1..Len(mapping) |->
        [date       |-> mapping[k].date,
         conditions |-> [j \in 1..Len(mapping[k].samples) |->
                            mapping[k].samples[j].wave_condition]]]

\* C26: the sample built for input index i stores the i-th timestamp and the
\* i-th element of each of the seven field arrays unchanged, and the
\* auxiliary fields decide nothing: the buckets and the ratings are those of
\* the same payload with other auxiliary values.
C26_CarriedUnchanged ==
    Done /\ outcome = "returned" /\ HasHourly =>
        /\ \A i \in 1..Len(InputTimes) :
              /\ Placed(i)
              /\ SampleOf(i).timestamp = InputTimes[i]
              /\ \A name \in Fields : SampleOf(i)[name] = InputHourly[name][i]
        /\ Ratings(processed_data)
              = Ratings(process_wave_data(WithDefaultAuxiliary(data)).value)

\* Two Good samples of one day, one without auxiliary values and one with
\* other auxiliary values than the default.
C26_Witness ==
    /\ Done /\ outcome = "returned"
    /\ Len(InputTimes) = 2
    /\ InputDate(1) = 1 /\ InputDate(2) = 1
    /\ InputHourly["wind_wave_height"] = <<None, Num(52000)>>
    /\ InputHourly["wave_direction"] = <<None, Num(900000)>>
    /\ Ratings(processed_data) = <<[date |-> 1, conditions |-> <<"Good", "Good">>]>>

---------------------------------------------------------------------------
(* The classifier's band claim, checked under SpecClassify *)

\* Good inside the Good band, else OK inside the OK band, else Bad.
ThreeRule(a) == IF InGoodBox(a) THEN "Good" ELSE IF InOKBox(a) THEN "OK" ELSE "Bad"

Rejected(a) ==
    \/ Above(a.wave_height, 40000) \/ Below(a.wave_height, 2000)
    \/ Below(a.swell_height, 4000) \/ Below(a.swell_period, 50000)

\* C27: for every triple of present values assess_wave_conditions returns
\* the label of the three-rule function (Good band, else OK band, else Bad):
\* the four rejections change nothing.  The Good band lies inside the OK
\* band, the label is Bad exactly outside the OK band, and a triple outside
\* the OK band that no rejection matches (a wave height in [0.2, 0.5), a
\* swell height above 3.8, a period above 18.0) is Bad by the final rule.
C27_RejectionsRedundant ==
    Called /\ ~SomeAbsent(args) =>
        /\ ret = ThreeRule(args)
        /\ InGoodBox(args) => InOKBox(args)
        /\ Rejected(args) => ~InOKBox(args)
        /\ ret = "Bad" <=> ~InOKBox(args)
        /\ ~Rejected(args) /\ ~InOKBox(args) => ret = "Bad" /\ ret_line = 136
        /\ ~Rejected(args) /\ Within(args.wave_height, 2000, 4999) => ret = "Bad"
        /\ ~Rejected(args) /\ Above(args.swell_height, 38000) => ret = "Bad"
        /\ ~Rejected(args) /\ Above(args.swell_period, 180000) => ret = "Bad"

\* A wave of 0.4 m over a fair swell: no rejection matches, the result is Bad.
C27_Witness ==
    /\ Called
    /\ args = Triple(4000, 5000, 60000)
    /\ ~Rejected(args)
    /\ ret = "Bad" /\ ret_line = 136

---------------------------------------------------------------------------
(* The callers' claims, checked under SpecCallers *)

\* main() of extract_info.py printed a line with this text
Printed(text) == \E i \in DOMAIN printed.lines : printed.lines[i].text = text

\* C24: the callers report a retrieval failure only when fetch_marine_data
\* returned no payload (None), and treat an empty-but-valid payload (an empty
\* object, or one with no hourly data) as data: main() reports neither a
\* failed fetch nor failed processing for it, and the dashboard's fetch step
\* reports a failed fetch exactly for None.
C24_OnlyNoneIsFailure ==
    /\ printed.ran =>
          /\ Printed("Failed to fetch marine data") <=> data.kind = "None"
          /\ data.kind = "dict" => ~Printed("Failed to process wave data")
    /\ shown.ran /\ shown.fetched # "no" =>
          (shown.error = "Failed to fetch data" <=> shown.fetched = "None")

\* C29: the callers' percentage computations never divide by zero: neither
\* main() printing the overall condition distribution nor the dashboard
\* rendering its key metrics ends in a ZeroDivisionError.
C29_NoZeroDivision ==
    /\ printed.exc # "ZeroDivisionError"
    /\ shown.ran => shown.metrics # "ZeroDivisionError"

\* C30: whenever marine_data is present at the status indicator of a dashboard
\* run, its metadata coordinates are those of the beach selected in that run,
\* so the "different coordinates" branch is never taken, and the data the run
\* displays was fetched for the selected beach.
C30_DataMatchesSelection ==
    shown.ran =>
       /\ shown.status # "Data shown is for different coordinates"
       /\ shown.indicated # <<>> =>
             shown.indicated = <<BEACH_OPTIONS[shown.beach].lat,
                                 BEACH_OPTIONS[shown.beach].lon>>
       /\ shown.displayed # "" => shown.displayed = BEACH_OPTIONS[shown.beach].name

\* A run that fetches nothing finds the data of an earlier run at the status
\* indicator, after the beach was changed at least once in between or before:
\* the stored data is that of the selected beach, which is not the default one.
C30_Witness ==
    /\ shown.ran
    /\ shown.status = "Data is current for selected location"
    /\ shown.fetched = "no"
    /\ shown.beach = "Holon Beach"
    /\ shown.indicated = <<320100000, 347800000>>

=============================================================================
